---------------------------- MODULE Spec2Model ----------------------------
(***************************************************************************)
(* The to-do list backend of src/main.py: a PostgreSQL store (tables users *)
(* and tasks), cookie sessions held by the clients, and the seven routes.  *)
(* Every route is modelled by one action per database round trip (each     *)
(* await of the handler), so that requests of different clients can        *)
(* interleave between the round trips.  Spec serves one request at a time, *)
(* SpecConc interleaves the requests of two clients that share a user,     *)
(* SpecAdmin is Spec with the ORM's cascading deletion of a user.          *)
(***************************************************************************)
EXTENDS Integers, Sequences, FiniteSets, TLC

\* ------------------------------------------------------------------ bounds
\* The number of requests the clients send in one behaviour.
MaxRequests == 6

Clients   == {"c1", "c2"}
Usernames == {"alice", "bob"}
Passwords == {"pw1", "pw2"}
Contents  == {"a", "b"}
Salts     == {"s1"}

\* ------------------------------------------------------------------ values
\* A nullable value: None / SQL NULL is the empty sequence, a value v is <<v>>.
NULL == <<>>
Some(v) == <<v>>

Fields == {"content", "completed"}

VARIABLES
    users,       \* table users: rows [id, username, hashed_password]
    tasks,       \* table tasks: rows [id, content, completed, owner_id]
    nextUserId,  \* the sequence behind users.id
    nextTaskId,  \* the sequence behind tasks.id
    cookie,      \* per client: the session it holds, NULL or Some(username)
    req,         \* per client: its request in flight, or the response to it
    sent,        \* requests sent so far
    interleave,  \* whether the server takes a request while another is
                 \* under way (fixed in a behaviour)
    createdBy,   \* history: <<task id, username of the session that created it>>
    deleted,     \* history: ids whose DELETE was answered 200
    lastEvent    \* history: per client, the last event that changed its
                 \* session: <<>> (none yet), <<"login", username>> for a
                 \* login answered 200, <<"logout">>

vars == <<users, tasks, nextUserId, nextTaskId, cookie, req, sent, interleave,
          createdBy, deleted, lastEvent>>

store == <<users, tasks, nextUserId, nextTaskId>>

\* ------------------------------------------------------------------ models
\* A row of table users.
User(id, username, hashed_password) ==
    [id |-> id, username |-> username, hashed_password |-> hashed_password]

\* A row of table tasks.
Task(id, content, completed, owner_id) ==
    [id |-> id, content |-> content, completed |-> completed, owner_id |-> owner_id]

\* Column(Boolean, default=False): the value INSERT stores for completed.
CompletedDefault == Some(FALSE)

\* The parsed PUT body: both fields default to None, fields_set are those
\* the JSON body carried.
TaskUpdate(content, completed, fields_set) ==
    [content |-> content, completed |-> completed, fields_set |-> fields_set]

\* Every PUT body: an unset field holds its default None, a set field holds
\* a value of its type or an explicit null.
TaskUpdates ==
    { tu \in [content : {NULL} \cup {Some(s) : s \in Contents},
              completed : {NULL} \cup {Some(b) : b \in BOOLEAN},
              fields_set : SUBSET Fields] :
        \A k \in Fields \ tu.fields_set : tu[k] = NULL }

\* TaskResponse: content: str and completed: bool, so a row with a NULL in
\* either fails the response_model validation.
TaskResponseValid(t) == t.content # NULL /\ t.completed # NULL

\* ------------------------------------------------------------------ passwords
\* pwd_context.hash: a salted one-way hash.
Hash(password, salt) == <<"bcrypt", salt, password>>

\* pwd_context.verify: rehash with the salt of the stored hash and compare.
Verify(password, hashed_password) ==
    Hash(password, hashed_password[2]) = hashed_password

\* ------------------------------------------------------------------ queries
\* result.scalar_one_or_none() of a query that matches at most one row.
ScalarOneOrNone(rows) == IF rows = {} THEN NULL ELSE Some(CHOOSE r \in rows : TRUE)

\* select(User).filter(User.username == username)
SelectUser(us, username) == ScalarOneOrNone({u \in us : u.username = username})

\* get_current_user: 401 without a session username, 404 when no user row
\* has it, else the user row.  (A username is never the empty string: the
\* form fields of /register are required.)
GetCurrentUser(session, us) ==
    IF session = NULL
    THEN [status |-> 401, user |-> NULL]
    ELSE LET user == SelectUser(us, session[1])
         IN  IF user = NULL
             THEN [status |-> 404, user |-> NULL]
             ELSE [status |-> 200, user |-> user]

\* OwnedBy without its filter: every row, whoever owns it.
OwnedByAnyone(ts, user_id) == ts

\* .filter(Task.owner_id == user.id)
OwnedBy(ts, user_id) == {t \in ts : t.owner_id = user_id}

\* SelectTask without the owner in its filter.
SelectTaskById(ts, task_id, user_id) ==
    ScalarOneOrNone({t \in ts : t.id = task_id})

\* select(Task).filter(Task.id == task_id, Task.owner_id == user.id)
SelectTask(ts, task_id, user_id) ==
    ScalarOneOrNone({t \in OwnedBy(ts, user_id) : t.id = task_id})

\* The place of a completed value under ORDER BY completed ASC: false, true,
\* and NULL last (PostgreSQL's default for ASC).
CompletedRank(c) == IF c = NULL THEN 2 ELSE IF c[1] THEN 1 ELSE 0

\* Precedes with the identifier ascending: order_by(Task.completed, Task.id).
PrecedesAscendingId(t, u) ==
    \/ CompletedRank(t.completed) < CompletedRank(u.completed)
    \/ /\ CompletedRank(t.completed) = CompletedRank(u.completed)
       /\ t.id < u.id

\* order_by(Task.completed, desc(Task.id)): t is listed before u.
Precedes(t, u) ==
    \/ CompletedRank(t.completed) < CompletedRank(u.completed)
    \/ /\ CompletedRank(t.completed) = CompletedRank(u.completed)
       /\ t.id > u.id

\* The rows of S in the order of Precedes.
RECURSIVE OrderBy(_)
OrderBy(S) ==
    IF S = {} THEN <<>>
    ELSE LET first == CHOOSE t \in S : \A u \in S \ {t} : Precedes(t, u)
         IN  <<first>> \o OrderBy(S \ {first})

\* get_tasks' query: the owner's rows, ordered.
GetTasksQuery(ts, user_id) == OrderBy(OwnedBy(ts, user_id))

\* response_model=List[TaskResponse] / TaskResponse: 200 when every returned
\* row validates, else the server error of the failed response validation.
ResponseStatus(rows) ==
    IF \A i \in 1..Len(rows) : TaskResponseValid(rows[i]) THEN 200 ELSE 500

\* ------------------------------------------------------------------ update
\* DictExcludeUnset without exclude_unset: task_update.dict(), every field.
DictAll(tu) == [k \in Fields |-> tu[k]]

\* task_update.dict(exclude_unset=True): the fields the body carried.
DictExcludeUnset(tu) == [k \in tu.fields_set |-> tu[k]]

\* for key, value in d.items(): setattr(task, key, value)
SetAttrs(task, d) ==
    [task EXCEPT !.content   = IF "content" \in DOMAIN d THEN d["content"] ELSE @,
                 !.completed = IF "completed" \in DOMAIN d THEN d["completed"] ELSE @]

\* The unit of work at commit: the columns whose value differs from the one
\* loaded are the columns of the UPDATE; none means no UPDATE is emitted.
Modified(loaded, current) == {k \in Fields : current[k] # loaded[k]}

\* UPDATE tasks SET <modified columns> WHERE id = current.id
UpdateRow(row, loaded, current) ==
    [row EXCEPT !.content   = IF "content" \in Modified(loaded, current)
                              THEN current.content ELSE @,
                !.completed = IF "completed" \in Modified(loaded, current)
                              THEN current.completed ELSE @]

\* The row with primary key id, or NULL (db.refresh's SELECT).
RowById(ts, id) == ScalarOneOrNone({t \in ts : t.id = id})

\* ------------------------------------------------------------------ sessions
\* request.session["username"] = username
SessionSet(session, username) == Some(username)

\* SessionClear that clears nothing.
SessionKept(session) == session

\* request.session.clear()
SessionClear(session) == NULL

\* ------------------------------------------------------------------ identifiers
\* AssignedId as a store without a sequence assigns it: the largest id in
\* the table plus one, so the id of a deleted last row is handed out again.
AssignedIdMaxPlusOne(nextval, rows) ==
    IF rows = {} THEN 1
    ELSE (CHOOSE i \in {r.id : r \in rows} : \A r \in rows : r.id <= i) + 1

\* users.id / tasks.id, Integer primary keys: PostgreSQL draws them from a
\* sequence, which never hands a value out twice.
AssignedId(nextval, rows) == nextval

\* ------------------------------------------------------------------ requests
\* No request: the client is idle.
Idle ==
    [pc |-> "idle", op |-> "none", username |-> "", password |-> "", id |-> 0,
     content |-> "", update |-> TaskUpdate(NULL, NULL, {}), session |-> NULL,
     user |-> NULL, loaded |-> NULL, task |-> NULL, status |-> 0, ret |-> <<>>,
     pre |-> [users |-> {}, tasks |-> {}, deleted |-> {}],
     n |-> 0, quiet |-> TRUE, others |-> {}]

InFlight(r) == r.pc \notin {"idle", "done"}

\* A request of client c as it arrives: the session is the cookie it carries.
\* pre, n, quiet and others are history: the store as the request found it,
\* its number, whether no other request was in flight then, and the requests
\* of other clients that arrived while it was in flight.
New(c, op) ==
    [Idle EXCEPT !.op = op, !.session = cookie[c],
                 !.pre = [users |-> users, tasks |-> tasks, deleted |-> deleted],
                 !.n = sent + 1,
                 !.quiet = \A d \in Clients \ {c} : ~InFlight(req[d])]

\* The response to request r.
Done(r, status, ret) == [r EXCEPT !.pc = "done", !.status = status, !.ret = ret]

\* No other client has a request under way.
Alone(c) == \A d \in Clients \ {c} : req[d].pc = "idle"

\* Client c sends a request, which starts as r.
Arrival(c, r) ==
    /\ req[c].pc = "idle"
    /\ interleave \/ Alone(c)
    /\ UNCHANGED interleave
    /\ sent < MaxRequests
    /\ sent' = sent + 1
    /\ req' = [d \in Clients |->
                 IF d = c THEN r
                 ELSE IF InFlight(req[d])
                      THEN [req[d] EXCEPT !.others = @ \cup {sent + 1}]
                      ELSE req[d]]

\* A request of a protected route arrives and Depends(get_current_user) runs.
Protected(c, r, next) ==
    LET auth == GetCurrentUser(r.session, users)
    IN  /\ Arrival(c, IF auth.status # 200
                      THEN Done(r, auth.status, <<>>)
                      ELSE [r EXCEPT !.pc = next, !.user = auth.user])
        /\ UNCHANGED <<store, cookie, createdBy, deleted, lastEvent>>

\* ------------------------------------------------------------------ /register
\* register, lines 77-80: the existence check.
RegisterSelect(c, username, password) ==
    LET r == [New(c, "register") EXCEPT !.username = username,
                                        !.password = password]
    IN  /\ Arrival(c, IF SelectUser(users, username) # NULL
                      THEN Done(r, 400, <<>>)
                      ELSE [r EXCEPT !.pc = "register_commit"])
        /\ UNCHANGED <<store, cookie, createdBy, deleted, lastEvent>>

\* register, lines 81-85: hash, INSERT and commit.  The INSERT draws the id,
\* then the unique index on username rejects a second row with the name and
\* the commit raises (IntegrityError, a server error).
RegisterCommit(c, salt) ==
    /\ req[c].pc = "register_commit"
    /\ nextUserId' = nextUserId + 1
    /\ IF \E u \in users : u.username = req[c].username
       THEN /\ users' = users
            /\ req' = [req EXCEPT ![c] = Done(@, 500, <<>>)]
       ELSE /\ users' = users \cup
                 {User(AssignedId(nextUserId, users), req[c].username,
                       Hash(req[c].password, salt))}
            /\ req' = [req EXCEPT ![c] = Done(@, 200, <<>>)]
    /\ UNCHANGED <<tasks, nextTaskId, cookie, sent, interleave, createdBy, deleted, lastEvent>>

\* ------------------------------------------------------------------ /login, /logout
\* login, line 93: the credentials are accepted.
Authenticated(us, username, password) ==
    LET user == SelectUser(us, username)
    IN  user # NULL /\ Verify(password, user[1].hashed_password)

\* login: 401 and the session untouched, or the session's username set.
Login(c, username, password) ==
    LET r  == [New(c, "login") EXCEPT !.username = username,
                                      !.password = password]
        ok == Authenticated(users, username, password)
    IN  /\ Arrival(c, Done(r, IF ok THEN 200 ELSE 401, <<>>))
        /\ cookie' = [cookie EXCEPT ![c] =
                        IF ok THEN SessionSet(@, username) ELSE @]
        /\ lastEvent' = [lastEvent EXCEPT ![c] =
                           IF req'[c].status = 200 THEN <<"login", username>> ELSE @]
        /\ UNCHANGED <<store, createdBy, deleted>>

\* logout: the session is cleared.
Logout(c) ==
    /\ Arrival(c, Done(New(c, "logout"), 200, <<>>))
    /\ cookie' = [cookie EXCEPT ![c] = SessionClear(@)]
    /\ lastEvent' = [lastEvent EXCEPT ![c] = <<"logout">>]
    /\ UNCHANGED <<store, createdBy, deleted>>

\* ------------------------------------------------------------------ GET /tasks
GetTasksAuth(c) == Protected(c, New(c, "get_tasks"), "get_select")

\* get_tasks, lines 107-109: the query's rows are returned, and validated
\* against List[TaskResponse].
GetTasksSelect(c) ==
    /\ req[c].pc = "get_select"
    /\ LET rows == GetTasksQuery(tasks, req[c].user[1].id)
       IN  req' = [req EXCEPT ![c] = Done(@, ResponseStatus(rows), rows)]
    /\ UNCHANGED <<store, cookie, sent, interleave, createdBy, deleted, lastEvent>>

\* ------------------------------------------------------------------ POST /tasks
AddTaskAuth(c, content) ==
    Protected(c, [New(c, "add_task") EXCEPT !.content = content], "add_commit")

\* add_task, lines 114-116: INSERT and commit.  The INSERT draws the id, then
\* the foreign key on owner_id rejects a row whose user is gone.
AddTaskCommit(c) ==
    /\ req[c].pc = "add_commit"
    /\ nextTaskId' = nextTaskId + 1
    /\ IF \E u \in users : u.id = req[c].user[1].id
       THEN LET new_task == Task(AssignedId(nextTaskId, tasks), Some(req[c].content),
                                 CompletedDefault, req[c].user[1].id)
            IN  /\ tasks' = tasks \cup {new_task}
                /\ req' = [req EXCEPT ![c].pc = "add_refresh",
                                      ![c].task = Some(new_task)]
                /\ createdBy' = createdBy \cup {<<new_task.id, req[c].session[1]>>}
       ELSE /\ req' = [req EXCEPT ![c] = Done(@, 500, <<>>)]
            /\ UNCHANGED <<tasks, createdBy>>
    /\ UNCHANGED <<users, nextUserId, cookie, sent, interleave, deleted, lastEvent>>

\* db.refresh(task) and the handler's return: the row is read again; a row
\* that is gone raises (a server error).
Refresh(r, ts) ==
    LET row == RowById(ts, r.task[1].id)
    IN  IF row = NULL
        THEN Done(r, 500, <<>>)
        ELSE Done([r EXCEPT !.task = row], ResponseStatus(row), row)

\* add_task, lines 117-118.
AddTaskRefresh(c) ==
    /\ req[c].pc = "add_refresh"
    /\ req' = [req EXCEPT ![c] = Refresh(@, tasks)]
    /\ UNCHANGED <<store, cookie, sent, interleave, createdBy, deleted, lastEvent>>

\* ------------------------------------------------------------------ PUT /tasks/{id}
UpdateTaskAuth(c, task_id, task_update) ==
    Protected(c, [New(c, "update_task") EXCEPT !.id = task_id,
                                               !.update = task_update],
              "update_select")

\* update_task, lines 128-134: the task is selected by id and owner; 404
\* without it, else the body's fields are set on the loaded object.
UpdateTaskSelect(c) ==
    /\ req[c].pc = "update_select"
    /\ LET task == SelectTask(tasks, req[c].id, req[c].user[1].id)
       IN  req' = [req EXCEPT ![c] =
                     IF task = NULL
                     THEN Done(@, 404, <<>>)
                     ELSE [@ EXCEPT !.pc = "update_commit", !.loaded = task,
                                    !.task = Some(SetAttrs(task[1],
                                                 DictExcludeUnset(req[c].update)))]]
    /\ UNCHANGED <<store, cookie, sent, interleave, createdBy, deleted, lastEvent>>

\* update_task, line 136: the commit flushes the object.  Without a modified
\* column nothing is sent; an UPDATE that matches no row raises
\* (StaleDataError, a server error).
UpdateTaskCommit(c) ==
    /\ req[c].pc = "update_commit"
    /\ LET loaded  == req[c].loaded[1]
           current == req[c].task[1]
           row     == RowById(tasks, current.id)
       IN  IF Modified(loaded, current) = {}
           THEN /\ req' = [req EXCEPT ![c].pc = "update_refresh"]
                /\ tasks' = tasks
           ELSE IF row = NULL
           THEN /\ req' = [req EXCEPT ![c] = Done(@, 500, <<>>)]
                /\ tasks' = tasks
           ELSE /\ req' = [req EXCEPT ![c].pc = "update_refresh"]
                /\ tasks' = (tasks \ {row[1]}) \cup {UpdateRow(row[1], loaded, current)}
    /\ UNCHANGED <<users, nextUserId, nextTaskId, cookie, sent, interleave, createdBy,
                   deleted, lastEvent>>

\* update_task, lines 137-138.
UpdateTaskRefresh(c) ==
    /\ req[c].pc = "update_refresh"
    /\ req' = [req EXCEPT ![c] = Refresh(@, tasks)]
    /\ UNCHANGED <<store, cookie, sent, interleave, createdBy, deleted, lastEvent>>

\* ------------------------------------------------------------------ DELETE /tasks/{id}
DeleteTaskAuth(c, task_id) ==
    Protected(c, [New(c, "delete_task") EXCEPT !.id = task_id], "delete_select")

\* delete_task, lines 143-146.
DeleteTaskSelect(c) ==
    /\ req[c].pc = "delete_select"
    /\ LET task == SelectTask(tasks, req[c].id, req[c].user[1].id)
       IN  req' = [req EXCEPT ![c] =
                     IF task = NULL
                     THEN Done(@, 404, <<>>)
                     ELSE [@ EXCEPT !.pc = "delete_commit", !.loaded = task,
                                    !.task = task]]
    /\ UNCHANGED <<store, cookie, sent, interleave, createdBy, deleted, lastEvent>>

\* delete_task, lines 147-149: DELETE by primary key and commit.  A DELETE
\* that matches no row only warns, and the handler answers 200.
DeleteTaskCommit(c) ==
    /\ req[c].pc = "delete_commit"
    /\ tasks' = {t \in tasks : t.id # req[c].task[1].id}
    /\ req' = [req EXCEPT ![c] = Done(@, 200, <<>>)]
    /\ deleted' = deleted \cup {req[c].task[1].id}
    /\ UNCHANGED <<users, nextUserId, nextTaskId, cookie, sent, interleave, createdBy, lastEvent>>

\* ------------------------------------------------------------------ the rest
\* The client receives the response to its request.
Respond(c) ==
    /\ req[c].pc = "done"
    /\ req' = [req EXCEPT ![c] = Idle]
    /\ UNCHANGED <<store, cookie, sent, interleave, createdBy, deleted, lastEvent>>

\* Between two requests a user is deleted through the ORM, outside the
\* routes: cascade="all, delete-orphan" deletes the user's tasks with it.
DeleteUser(u) ==
    /\ \A c \in Clients : req[c].pc = "idle"
    /\ users' = users \ {u}
    /\ tasks' = tasks \ OwnedBy(tasks, u.id)
    /\ UNCHANGED <<nextUserId, nextTaskId, cookie, req, sent, interleave, createdBy,
                   deleted, lastEvent>>

\* ------------------------------------------------------------------ specifications
\* An empty database, no session, no request.
Init ==
    /\ users = {}
    /\ tasks = {}
    /\ nextUserId = 1
    /\ nextTaskId = 1
    /\ cookie = [c \in Clients |-> NULL]
    /\ req = [c \in Clients |-> Idle]
    /\ sent = 0
    /\ interleave = FALSE
    /\ createdBy = {}
    /\ deleted = {}
    /\ lastEvent = [c \in Clients |-> <<>>]

\* The ids a client may name: those handed out, and the next one.
TaskIds == 1..nextTaskId

\* One step of client c: a request arrives, or its handler takes its next
\* round trip, or the response is received.
Step(c) ==
    \/ \E u \in Usernames, p \in Passwords : RegisterSelect(c, u, p)
    \/ \E s \in Salts : RegisterCommit(c, s)
    \/ \E u \in Usernames, p \in Passwords : Login(c, u, p)
    \/ Logout(c)
    \/ GetTasksAuth(c)
    \/ GetTasksSelect(c)
    \/ \E content \in Contents : AddTaskAuth(c, content)
    \/ AddTaskCommit(c)
    \/ AddTaskRefresh(c)
    \/ \E id \in TaskIds, tu \in TaskUpdates : UpdateTaskAuth(c, id, tu)
    \/ UpdateTaskSelect(c)
    \/ UpdateTaskCommit(c)
    \/ UpdateTaskRefresh(c)
    \/ \E id \in TaskIds : DeleteTaskAuth(c, id)
    \/ DeleteTaskSelect(c)
    \/ DeleteTaskCommit(c)
    \/ Respond(c)

Next == \E c \in Clients : Step(c)

\* Requests are served one at a time.
Spec == Init /\ [][Next]_vars

\* The state that four requests reach from Init, POST /register (alice, pw1),
\* POST /login by each client and one POST /tasks: both clients hold alice's
\* session and alice owns one task.  From here the server interleaves.
InitConc ==
    /\ users = {User(1, "alice", Hash("pw1", "s1"))}
    /\ tasks = {Task(1, Some("a"), CompletedDefault, 1)}
    /\ nextUserId = 2
    /\ nextTaskId = 2
    /\ cookie = [c \in Clients |-> Some("alice")]
    /\ req = [c \in Clients |-> Idle]
    /\ sent = 4
    /\ interleave = TRUE
    /\ createdBy = {<<1, "alice">>}
    /\ deleted = {}
    /\ lastEvent = [c \in Clients |-> <<"login", "alice">>]

\* The requests of the two clients interleave.
SpecConc == InitConc /\ [][Next]_vars

\* One request at a time, and users may be deleted outside the routes.
NextAdmin == Next \/ \E u \in users : DeleteUser(u)

SpecAdmin == Init /\ [][NextAdmin]_vars

\* ------------------------------------------------------------------ properties
\* Client c holds the response to a request of route op.
Answered(c, op) == req[c].pc = "done" /\ req[c].op = op

ProtectedOps == {"get_tasks", "add_task", "update_task", "delete_task"}

\* The ids of the rows of a sequence.
Ids(rows) == {rows[i].id : i \in 1..Len(rows)}

\* The tasks created under the sessions of username.
CreatedUnder(username) == {p[1] : p \in {q \in createdBy : q[2] = username}}

NotOwned(c) ==
    ~ \E t \in req[c].pre.tasks :
          t.id = req[c].id /\ t.owner_id = req[c].user[1].id

\* C2: a PUT or DELETE under A's session on an id that A does not own, whether
\* another user's task or no task at all, is answered 404 with no body and
\* leaves the users and the tasks as they were.
CrossUserRejected ==
    \A c \in Clients :
        /\ req[c].pc = "done"
        /\ req[c].op \in {"update_task", "delete_task"}
        /\ req[c].user # NULL
        /\ NotOwned(c)
        => /\ req[c].status = 404
           /\ req[c].ret = <<>>
           /\ tasks = req[c].pre.tasks
           /\ users = req[c].pre.users

\* A PUT that would change another user's task has been answered.
CrossUserRejectedWitness ==
    \E c \in Clients :
        /\ Answered(c, "update_task") /\ req[c].user # NULL
        /\ req[c].update.fields_set = Fields
        /\ \E t \in tasks :
               /\ t.id = req[c].id
               /\ t.owner_id # req[c].user[1].id
               /\ t.content # req[c].update.content
               /\ t.completed # req[c].update.completed

\* The row old after a PUT with body tu: the fields the body carried hold the
\* body's values, the others are old's.
Overwritten(old, tu) ==
    [id        |-> old.id,
     owner_id  |-> old.owner_id,
     content   |-> IF "content" \in tu.fields_set THEN tu.content ELSE old.content,
     completed |-> IF "completed" \in tu.fields_set THEN tu.completed
                   ELSE old.completed]

\* C6: a PUT by the owner that found the task replaces that one row by the row
\* with exactly the body's fields overwritten, id and owner kept; no other
\* task and no user changes, and a PUT answered 200 returns the new row.
PartialUpdateFrame ==
    \A c \in Clients :
        Answered(c, "update_task") /\ req[c].user # NULL /\ ~NotOwned(c) =>
            \E old \in req[c].pre.tasks :
                /\ old.id = req[c].id
                /\ tasks = (req[c].pre.tasks \ {old})
                               \cup {Overwritten(old, req[c].update)}
                /\ users = req[c].pre.users
                /\ req[c].status = 200 =>
                       req[c].ret = <<Overwritten(old, req[c].update)>>

\* A PUT carrying only completed was answered 200: completed changed, and the
\* content, which differs from the default of an unset field, was kept.
PartialUpdateFrameWitness ==
    \E c \in Clients :
        /\ Answered(c, "update_task") /\ req[c].status = 200
        /\ req[c].update.fields_set = {"completed"}
        /\ \E old \in req[c].pre.tasks :
               /\ old.id = req[c].id
               /\ old.completed # req[c].update.completed
               /\ old.content # NULL
               /\ Overwritten(old, req[c].update) \in tasks

\* C7: a protected request of a client is authenticated, and as user U,
\* exactly when the client's last session-changing event is a login answered
\* 200 as U (a failed login is no such event); otherwise, after a logout or a
\* repeated logout or with no login yet, it is rejected with 401.
SessionLifecycle ==
    \A c \in Clients :
        /\ req[c].pc = "done" /\ req[c].op \in ProtectedOps =>
               IF lastEvent[c] # <<>> /\ lastEvent[c][1] = "login"
               THEN req[c].user # NULL /\ req[c].user[1].username = lastEvent[c][2]
               ELSE req[c].user = NULL /\ req[c].status = 401
        /\ Answered(c, "logout") => req[c].status = 200 /\ cookie[c] = NULL
        /\ Answered(c, "login") /\ req[c].status # 200 =>
               req[c].status = 401 /\ cookie[c] = req[c].session

\* After a logout a client's protected request is rejected while another
\* client is still logged in as an existing user.
SessionLifecycleWitness ==
    \E c \in Clients, d \in Clients :
        /\ req[c].pc = "done" /\ req[c].op \in ProtectedOps
        /\ lastEvent[c] = <<"logout">>
        /\ req[c].status = 401
        /\ d # c /\ lastEvent[d] # <<>> /\ lastEvent[d][1] = "login"

\* C8: a deleted task is never stored again (its id is not handed out a second
\* time), is in no later listing and in no later response, and a later PUT or
\* DELETE on its id by any user is answered 404.
DeletionPermanent ==
    /\ \A t \in tasks : t.id \notin deleted
    /\ \A c \in Clients :
           req[c].pc = "done" /\ req[c].user # NULL =>
               /\ Ids(req[c].ret) \cap req[c].pre.deleted = {}
               /\ req[c].op \in {"update_task", "delete_task"}
                    /\ req[c].id \in req[c].pre.deleted
                  => req[c].status = 404

\* A second DELETE of a deleted id was answered while a task created after
\* the deletion is stored.
DeletionPermanentWitness ==
    \E c \in Clients :
        /\ Answered(c, "delete_task") /\ req[c].user # NULL
        /\ req[c].id \in req[c].pre.deleted
        /\ \E t \in tasks : t.id > req[c].id

NoIdentity(c) ==
    \/ req[c].session = NULL
    \/ ~ \E u \in req[c].pre.users : u.username = req[c].session[1]

\* C3: a request to a protected route whose session holds no username, or a
\* username of no user in the store, is answered 401 in both cases and leaves
\* the store unchanged.
UniformAuthFailure ==
    \A c \in Clients :
        req[c].pc = "done" /\ req[c].op \in ProtectedOps /\ NoIdentity(c) =>
            /\ req[c].status = 401
            /\ users = req[c].pre.users
            /\ tasks = req[c].pre.tasks

\* Requests a and b raced: a arrived with no request in flight, b is the one
\* request that arrived while a was in flight, and both are answered.
Raced(a, b) ==
    /\ a # b
    /\ req[a].pc = "done" /\ req[b].pc = "done"
    /\ req[a].quiet
    /\ req[a].others = {req[b].n}
    /\ req[b].others = {}

\* Request b arrived after a was answered, and both are answered.
Followed(a, b) ==
    /\ a # b
    /\ req[a].pc = "done" /\ req[b].pc = "done"
    /\ req[a].quiet
    /\ req[a].others = {}
    /\ req[b].others = {}
    /\ req[b].n > req[a].n

\* C4: no two users share a username, and of two register requests with the
\* same username, not registered before, in sequence or interleaved, one is
\* answered 200 and the other 400.
DuplicateRegistration ==
    /\ \A u \in users, v \in users : u.username = v.username => u = v
    /\ \A a \in Clients, b \in Clients :
           /\ Raced(a, b) \/ Followed(a, b)
           /\ req[a].op = "register" /\ req[b].op = "register"
           /\ req[a].username = req[b].username
           /\ ~ \E u \in req[a].pre.users : u.username = req[a].username
           => {req[a].status, req[b].status} = {200, 400}

\* What the client sees of a response: the status, and with 200 the body.
Seen(status, ret) == <<status, IF status = 200 THEN ret ELSE <<>>>>

\* PUT or DELETE request r served on the tasks ts in one atomic step: the
\* tasks after it and the response seen.
Serve(r, ts) ==
    LET task == SelectTask(ts, r.id, r.user[1].id)
    IN  IF task = NULL
        THEN [tasks |-> ts, seen |-> Seen(404, <<>>)]
        ELSE IF r.op = "delete_task"
        THEN [tasks |-> ts \ {task[1]}, seen |-> Seen(200, <<>>)]
        ELSE LET new == SetAttrs(task[1], DictExcludeUnset(r.update))
             IN  [tasks |-> (ts \ {task[1]}) \cup {new},
                  seen  |-> Seen(ResponseStatus(<<new>>), <<new>>)]

\* The tasks and the two responses when x is served on ts, then y.
Serial(x, y, ts) ==
    LET first  == Serve(x, ts)
        second == Serve(y, first.tasks)
    IN  [tasks |-> second.tasks,
         seen  |-> [k \in {x.n, y.n} |->
                      IF k = x.n THEN first.seen ELSE second.seen]]

\* C5: two raced requests of one user on one of its tasks, two PUTs or a PUT
\* and a DELETE, end with the tasks and the two responses of one of the two
\* serial orders.
NoLostUpdates ==
    \A a \in Clients, b \in Clients :
        /\ Raced(a, b)
        /\ {req[a].op, req[b].op} \subseteq {"update_task", "delete_task"}
        /\ "update_task" \in {req[a].op, req[b].op}
        /\ req[a].user # NULL /\ req[b].user = req[a].user
        /\ req[a].id = req[b].id
        /\ ~NotOwned(a)
        => [tasks |-> tasks,
            seen  |-> [k \in {req[a].n, req[b].n} |->
                         IF k = req[a].n THEN Seen(req[a].status, req[a].ret)
                         ELSE Seen(req[b].status, req[b].ret)]]
             \in {Serial(req[a], req[b], req[a].pre.tasks),
                  Serial(req[b], req[a], req[a].pre.tasks)}

\* C10: every stored task has a string content, a completed flag that is true
\* or false, and an owner that is a stored user; a task just created is not
\* completed.
TaskWellFormed ==
    /\ \A t \in tasks :
           /\ t.content # NULL
           /\ t.completed \in {Some(TRUE), Some(FALSE)}
           /\ \E u \in users : u.id = t.owner_id
    /\ \A c \in Clients :
           Answered(c, "add_task") /\ req[c].status = 200 =>
               req[c].ret[1].completed = Some(FALSE)

=============================================================================
